---- MODULE Spec2Model ----
(***************************************************************************)
(* BLE servo peripheral (HackUMass-F25): the LBS-like GATT service of      *)
(* my_lbs.c (write_led, read_button, my_lbs_init) and the application of   *)
(* main.c (servo cycle, LED/button callbacks, button handler, advertising  *)
(* work item, connection callbacks, main).                                 *)
(*                                                                         *)
(* Execution contexts:                                                     *)
(*   - the main thread (main, then the status-LED loop),                   *)
(*   - the Bluetooth stack's callback context (write_led, read_button,     *)
(*     on_connected, on_disconnected, recycled_cb), position btpc,         *)
(*   - the system work queue (adv_work_handler, button_handler).           *)
(* write_led blocks in k_msleep inside run_servo_cycle; the two sleeps are *)
(* the only points where the callback context gives up the processor, so   *)
(* the handler is modelled as three steps cut at those two points.         *)
(***************************************************************************)
EXTENDS Integers, Sequences, FiniteSets, TLC

\* ---------------------------------------------------------------- bounds
\* longest write payload, in bytes
MaxLen == 2
\* largest write offset
MaxOffset == 1
\* largest read offset
MaxReadOffset == 2
\* largest read buffer handed to read_button by the stack
MaxBufLen == 2
\* number of inputs on the board whose bits appear in the button masks
NumButtons == 2
\* advertising requests counted between two runs of the work handler
MaxRequests == 2

\* payload bytes: both legal values, the nearest and the farthest illegal one
Bytes == {0, 1, 2, 255}

\* ------------------------------------------------------- program constants
BT_ATT_ERR_INVALID_OFFSET == 7
BT_ATT_ERR_INVALID_ATTRIBUTE_LEN == 13
BT_ATT_ERR_VALUE_NOT_ALLOWED == 19
ENODEV == 19
EIO == 5
DK_BTN1_MSK == 1
PWM_SERVO_MIN_PULSE_WIDTH == 1000000
CYCLE_MIN_PULSE == 1125000
CYCLE_MAX_PULSE == 1875000
HOLD_AFTER_MIN == 50
HOLD_AFTER_MAX == 750

BT_GATT_ERR(code) == -code

\* results a driver call (pwm_set_dt, dk_set_led) can give
Errs == {0, -EIO}

VARIABLES
    mainpc,            \* position of main()
    blink_status,      \* main's loop counter, kept modulo 2 (all line 237 uses)
    run_led,           \* RUN_STATUS_LED output
    handler_set,       \* dk_buttons_init has installed button_handler
    callbacks,         \* the argument main hands to my_lbs_init
    lbs_cb,            \* my_lbs.c: static struct my_lbs_cb lbs_cb
    button_state,      \* my_lbs.c: static bool button_state
    app_button_state,  \* main.c: static bool app_button_state
    adv_pending,       \* entries of adv_work on the system work queue
    adv_requests,      \* history: advertising_start calls since adv_work_handler
                       \* last ran (counted up to MaxRequests)
    link,              \* the stack's link state
    btpc,              \* position of the stack's callback context
    frame,             \* the write_led call that is asleep in k_msleep
    servo_pulse,       \* pulse width the PWM output currently has
    blinky_led,        \* BLINKY_LED output
    last_edge,         \* history: last edge event that flagged button 1 changed
    op                 \* history: the step just taken, its inputs and results

vars == <<mainpc, blink_status, run_led, handler_set, callbacks, lbs_cb,
          button_state, app_button_state, adv_pending, adv_requests, link,
          btpc, frame, servo_pulse, blinky_led, last_edge, op>>

\* the main thread's own state
mainvars == <<mainpc, blink_status, run_led>>
\* the advertising work item and the count of requests for it
advq == <<adv_pending, adv_requests>>
\* the peripheral outputs driven by app_led_cb
outs == <<servo_pulse, blinky_led>>
\* everything the program stores, i.e. all but the history variables
progstate == <<mainpc, blink_status, run_led, handler_set, callbacks, lbs_cb,
            button_state, app_button_state, adv_pending, link, btpc, frame,
            servo_pulse, blinky_led>>

\* ------------------------------------------------------------- helpers
BoolToInt(b) == IF b THEN 1 ELSE 0

Min(a, b) == IF a < b THEN a ELSE b

RECURSIVE BitAnd(_, _)
BitAnd(a, b) ==
    IF a = 0 \/ b = 0 THEN 0
    ELSE (a % 2) * (b % 2) + 2 * BitAnd(a \div 2, b \div 2)

Pow2(n) == IF n = 0 THEN 1 ELSE IF n = 1 THEN 2 ELSE IF n = 2 THEN 4 ELSE 8
Masks == 0 .. (Pow2(NumButtons) - 1)

Payloads == UNION { [1 .. n -> Bytes] : n \in 0 .. MaxLen }

\* op: name of the step; buf, len, offset, button_state, has_changed, err: its
\* inputs (err also holds the result of the one driver or stack call of a step
\* that makes one); ready: what pwm_is_ready_dt answered; effects: the
\* set_motor_angle calls, sleeps and dk_set_led calls write_led has made so
\* far, in order; cycle, cycle_ret: whether run_servo_cycle was called and
\* what it returned; ret, rsp: what a GATT handler returned and copied out;
\* adv_call: the step called bt_le_adv_start; requests: the advertising_start
\* calls a run of adv_work_handler found made since the run before it
NoOp == [name |-> "init", buf |-> <<>>, len |-> 0, offset |-> 0,
         button_state |-> 0, has_changed |-> 0, err |-> 0, ready |-> TRUE,
         effects |-> <<>>, cycle |-> "none", cycle_ret |-> 0,
         ret |-> 0, rsp |-> <<>>, adv_call |-> FALSE, requests |-> 0]

Op(name) == [NoOp EXCEPT !.name = name]

NoFrame == [buf |-> <<>>, offset |-> 0, effects |-> <<>>]

NullCallbacks == [present |-> FALSE, led_cb |-> FALSE, button_cb |-> FALSE]
CallbackSets ==
    {NullCallbacks} \cup
    [present : {TRUE}, led_cb : BOOLEAN, button_cb : BOOLEAN]

Pos(pulse, err) == <<"pos", pulse, err>>
Hold(ms) == <<"hold", ms, 0>>
Led(on, err) == <<"led", BoolToInt(on), err>>

\* ---------------------------------------------------------------- Init
Init ==
    /\ mainpc = "pwm_init"
    /\ blink_status = 0
    /\ run_led = 0
    /\ handler_set = FALSE
    /\ callbacks \in CallbackSets
    /\ lbs_cb = [led_cb |-> FALSE, button_cb |-> FALSE]
    /\ button_state = FALSE
    /\ app_button_state = FALSE
    /\ adv_pending = 0
    /\ adv_requests = 0
    /\ link = "off"
    /\ btpc = "idle"
    /\ frame = NoFrame
    /\ servo_pulse = 0
    /\ blinky_led = 0
    /\ last_edge = "none"
    /\ op = NoOp

\* ------------------------------------------------------ my_lbs.c: init
\* my_lbs_init: copy both slots when a callback set is given, else keep lbs_cb
my_lbs_init(cbs, cur) ==
    IF cbs.present
    THEN [led_cb |-> cbs.led_cb, button_cb |-> cbs.button_cb]
    ELSE cur

\* ---------------------------------------------------------- main.c: main
\* every call puts one more entry on the work queue
advertising_start_enqueue_each(queued) ==
    [queued |-> queued + 1, started |-> FALSE]

\* bt_le_adv_start called in the caller's context instead of the work item
advertising_start_direct(queued) == [queued |-> queued, started |-> TRUE]

\* the submission left out
advertising_start_dropped(queued) == [queued |-> queued, started |-> FALSE]

\* lines 97-100: advertising_start only submits adv_work and returns; it does
\* not call bt_le_adv_start. k_work_submit queues an item that is not queued
\* and leaves a queued one alone.
advertising_start(queued) ==
    [queued |-> IF queued = 0 THEN 1 ELSE queued, started |-> FALSE]

\* a caller of advertising_start: the work queue after the call, the
\* request counted
RequestAdvertising(name) ==
    LET r == advertising_start(adv_pending)
    IN  /\ adv_pending' = r.queued
        /\ adv_requests' = Min(adv_requests + 1, MaxRequests)
        /\ op' = [Op(name) EXCEPT !.adv_call = r.started]

\* a failed step of main is not looked at
main_after_ignore_error(e, next) == next

\* lines 198-201, 205-208, 211-214, 218-221: a failed step returns -1
main_after(e, next) == IF e # 0 THEN "aborted" ELSE next

\* lines 193-201: readiness check, then the initial position command
main_pwm_init ==
    /\ mainpc = "pwm_init"
    /\ \E ready \in BOOLEAN, e \in Errs :
        /\ mainpc' = IF ~ready THEN "aborted" ELSE main_after(e, "dk_init")
        /\ servo_pulse' = IF ready /\ e = 0 THEN PWM_SERVO_MIN_PULSE_WIDTH
                          ELSE servo_pulse
        /\ op' = [Op("main_pwm_init") EXCEPT !.ready = ready,
                                             !.err = IF ready THEN e ELSE 0]
    /\ UNCHANGED <<blink_status, run_led, handler_set, callbacks, lbs_cb,
                   button_state, app_button_state, advq, link, btpc,
                   frame, blinky_led, last_edge>>

\* lines 204-214: dk_leds_init, then init_button (dk_buttons_init)
main_dk_init ==
    /\ mainpc = "dk_init"
    /\ \E e1 \in Errs, e2 \in Errs :
        /\ mainpc' = main_after(e1, main_after(e2, "bt_enable"))
        /\ handler_set' = (e1 = 0 /\ e2 = 0)
        /\ op' = [Op("main_dk_init") EXCEPT !.err = IF e1 # 0 THEN e1 ELSE e2]
    /\ UNCHANGED <<blink_status, run_led, callbacks, lbs_cb, button_state,
                   app_button_state, advq, link, btpc, frame, outs,
                   last_edge>>

\* lines 217-223: bt_enable, then bt_conn_cb_register
main_bt_enable ==
    /\ mainpc = "bt_enable"
    /\ \E e \in Errs :
        /\ mainpc' = main_after(e, "lbs_init")
        /\ link' = IF e # 0 THEN link ELSE "idle"
        /\ op' = [Op("main_bt_enable") EXCEPT !.err = e]
    /\ UNCHANGED <<blink_status, run_led, handler_set, callbacks, lbs_cb,
                   button_state, app_button_state, advq, btpc, frame,
                   outs, last_edge>>

\* lines 225-233: my_lbs_init (always 0), k_work_init, advertising_start
main_lbs_init ==
    /\ mainpc = "lbs_init"
    /\ lbs_cb' = my_lbs_init(callbacks, lbs_cb)
    /\ RequestAdvertising("main_lbs_init")
    /\ mainpc' = "loop"
    /\ UNCHANGED <<blink_status, run_led, handler_set, callbacks, button_state,
                   app_button_state, link, btpc, frame, outs, last_edge>>

\* lines 236-239: one turn of the status-LED loop
main_loop ==
    /\ mainpc = "loop"
    /\ blink_status' = (blink_status + 1) % 2
    /\ run_led' = (blink_status + 1) % 2
    /\ op' = Op("main_loop")
    /\ UNCHANGED <<mainpc, handler_set, callbacks, lbs_cb, button_state,
                   app_button_state, advq, link, btpc, frame, outs,
                   last_edge>>

\* ------------------------------------------------- main.c: button_handler
\* the first test without has_changed
button_handler_next_level_only(cur, bs, hc) ==
    IF BitAnd(bs, DK_BTN1_MSK) # 0 THEN TRUE
    ELSE IF BitAnd(hc, DK_BTN1_MSK) # 0 THEN FALSE
    ELSE cur

\* the release test without the mask: a change of any input clears the value
button_handler_next_any_change(cur, bs, hc) ==
    IF BitAnd(BitAnd(hc, bs), DK_BTN1_MSK) # 0 THEN TRUE
    ELSE IF hc # 0 THEN FALSE
    ELSE cur

\* lines 168-173: the new value of app_button_state
button_handler_next(cur, bs, hc) ==
    IF BitAnd(BitAnd(hc, bs), DK_BTN1_MSK) # 0 THEN TRUE
    ELSE IF BitAnd(hc, DK_BTN1_MSK) # 0 THEN FALSE
    ELSE cur

button_handler ==
    /\ handler_set
    /\ \E bs \in Masks, hc \in Masks :
        /\ app_button_state' = button_handler_next(app_button_state, bs, hc)
        /\ last_edge' = IF hc % 2 = 1
                        THEN (IF bs % 2 = 1 THEN "press" ELSE "release")
                        ELSE last_edge
        /\ op' = [Op("button_handler") EXCEPT !.button_state = bs,
                                              !.has_changed = hc]
    /\ UNCHANGED <<mainvars, handler_set, callbacks, lbs_cb, button_state,
                   advq, link, btpc, frame, outs>>

\* ------------------------------------------- main.c: advertising work item
\* a failed start submits the work item again
adv_work_resubmit_on_error(e) == e # 0

\* lines 90-93: a failed start is logged and the handler returns; it submits
\* nothing
adv_work_resubmit(e) == FALSE

\* lines 87-95: the work queue takes the item and calls bt_le_adv_start once;
\* the stack can start advertising only when it is neither advertising nor
\* holding a connection object
adv_work_handler ==
    /\ adv_pending > 0
    /\ adv_requests' = 0
    /\ \E e \in Errs :
        /\ (link # "idle") => e # 0
        /\ link' = IF e = 0 THEN "advertising" ELSE link
        /\ adv_pending' = adv_pending - 1
                          + (IF adv_work_resubmit(e) THEN 1 ELSE 0)
        /\ op' = [Op("adv_work_handler") EXCEPT !.err = e, !.adv_call = TRUE,
                                                !.requests = adv_requests]
    /\ UNCHANGED <<mainvars, handler_set, callbacks, lbs_cb, button_state,
                   app_button_state, btpc, frame, outs, last_edge>>

\* ------------------------------------------ main.c: connection callbacks
\* HCI status of a failed connection, reasons of a disconnect
ConnErrs == {0, 62}
Reasons == {8, 19}

\* the callback restarts advertising itself
conn_event_queue_restart(queued) == advertising_start(queued).queued

\* lines 109-121: on_connected and on_disconnected log and return, adv_work
\* is as it was
conn_event_queue(queued) == queued

\* lines 109-116: log only
on_connected ==
    /\ link = "advertising"
    /\ btpc = "idle"
    /\ \E e \in ConnErrs :
        /\ link' = IF e = 0 THEN "connected" ELSE "conn_failed"
        /\ op' = [Op("on_connected") EXCEPT !.err = e]
    /\ adv_pending' = conn_event_queue(adv_pending)
    /\ UNCHANGED <<mainvars, handler_set, callbacks, lbs_cb, button_state,
                   app_button_state, adv_requests, btpc, frame, outs,
                   last_edge>>

\* lines 118-121: log only
on_disconnected ==
    /\ link = "connected"
    /\ btpc = "idle"
    /\ \E r \in Reasons :
        /\ op' = [Op("on_disconnected") EXCEPT !.err = r]
    /\ link' = "released"
    /\ adv_pending' = conn_event_queue(adv_pending)
    /\ UNCHANGED <<mainvars, handler_set, callbacks, lbs_cb, button_state,
                   app_button_state, adv_requests, btpc, frame, outs,
                   last_edge>>

\* the request is made only for the connection that was just disconnected
recycled_requests_guarded(l) == l = "released"

\* line 105: advertising_start is called on every recycled event, whatever
\* the link is doing
recycled_requests(l) == TRUE

\* lines 102-106. The stack calls this whenever a connection object goes back
\* to its pool: after a disconnect or a failed connection, and, as the
\* callback is not tied to the application's own link, at any other time once
\* the callbacks are registered and main has reached its loop (the stack
\* takes its first connection object in bt_le_adv_start, which main's
\* advertising_start leads to).
recycled_cb ==
    /\ link # "off"
    /\ mainpc = "loop"
    /\ btpc = "idle"
    /\ link' = IF link \in {"released", "conn_failed"} THEN "idle" ELSE link
    /\ IF recycled_requests(link)
       THEN RequestAdvertising("recycled_cb")
       ELSE UNCHANGED advq /\ op' = Op("recycled_cb")
    /\ UNCHANGED <<mainvars, handler_set, callbacks, lbs_cb, button_state,
                   app_button_state, btpc, frame, outs, last_edge>>

\* ------------------------------------------------ main.c: run_servo_cycle
\* the two sleeps exchanged
cycle_hold_swapped(n) == IF n = 1 THEN HOLD_AFTER_MAX ELSE HOLD_AFTER_MIN

\* a failed command no longer ends the cycle
cycle_after_no_abort(n, e) ==
    IF n < 3 THEN "sleep"
    ELSE IF e # 0 THEN "return_err"
    ELSE "return_ok"

\* the written boolean is not looked at: the cycle runs on every write
app_led_cb_branch_always_cycle(led_state) == "cycle"

\* the indicator is left alone when the actuator part failed
app_led_cb_tail_skip_on_error(eff, led_state, err, e2) ==
    IF err # 0 THEN eff ELSE Append(eff, Led(led_state, e2))

\* the sleep does not hold the caller: write_led is back at once
sleep_pc_not_blocking(n) == "idle"

\* lines 58, 64: k_msleep keeps the calling context until the time is over
sleep_pc(n) == IF n = 1 THEN "k_msleep_50" ELSE "k_msleep_750"

\* lines 53, 59, 65: the pulse width of the n-th position command
cycle_pulse(n) == IF n = 2 THEN CYCLE_MAX_PULSE ELSE CYCLE_MIN_PULSE

\* lines 58, 64: the sleep that follows the n-th position command
cycle_hold(n) == IF n = 1 THEN HOLD_AFTER_MIN ELSE HOLD_AFTER_MAX

\* lines 54-71: what run_servo_cycle does once its n-th set_motor_angle
\* call has returned e
cycle_after(n, e) ==
    IF e # 0 THEN "return_err"
    ELSE IF n < 3 THEN "sleep"
    ELSE "return_ok"

\* ----------------------------------------------------- main.c: app_led_cb
\* line 136: which actuator operation the written boolean selects
app_led_cb_branch(led_state) == IF led_state THEN "cycle" ELSE "reset"

\* lines 147-151: after the actuator part (result err), dk_set_led is called
\* with the written boolean; e2 is its result
app_led_cb_tail(eff, led_state, err, e2) == Append(eff, Led(led_state, e2))

\* my_lbs.c line 56: the value write_led returns once the notifier is back;
\* err and e2 are the results of the actuator part and of dk_set_led
write_led_return(len, err, e2) == len

\* the record of a write_led step
WOp(name, buf, offset) ==
    [Op(name) EXCEPT !.buf = buf, !.len = Len(buf), !.offset = offset]

\* app_led_cb from line 147 to its return, then write_led's return
Finish(base, led_state, eff, err) ==
    \E e2 \in Errs :
        /\ blinky_led' = IF e2 = 0 THEN BoolToInt(led_state) ELSE blinky_led
        /\ btpc' = "idle"
        /\ frame' = NoFrame
        /\ op' = [base EXCEPT
                    !.effects = app_led_cb_tail(eff, led_state, err, e2),
                    !.err = e2,
                    !.ret = write_led_return(base.len, err, e2)]

\* set_motor_angle number n of run_servo_cycle with result e, and what follows
\* it up to the next sleep or to the return of write_led
CycleCommand(base, n, eff, e) ==
    LET eff1 == Append(eff, Pos(cycle_pulse(n), e))
        eff2 == Append(eff1, Hold(cycle_hold(n)))
        next == cycle_after(n, e)
        r    == IF next = "return_ok" THEN 0 ELSE e
    IN  /\ servo_pulse' = IF e = 0 THEN cycle_pulse(n) ELSE servo_pulse
        /\ IF next = "sleep"
           THEN /\ btpc' = sleep_pc(n)
                /\ frame' = [buf |-> base.buf, offset |-> base.offset,
                             effects |-> eff2]
                /\ op' = [base EXCEPT !.effects = eff2, !.cycle = "sleeping"]
                /\ UNCHANGED blinky_led
           ELSE Finish([base EXCEPT !.cycle = "returned", !.cycle_ret = r],
                       TRUE, eff1, r)

\* lines 132-146: entry of app_led_cb. pwm_is_ready_dt is asked on every
\* call (line 48), so its answer is taken as an input of every call
app_led_cb(base, led_state) ==
    IF app_led_cb_branch(led_state) = "cycle"
    THEN \E ready \in BOOLEAN, e \in Errs :
            IF ~ready
            THEN /\ UNCHANGED servo_pulse
                 /\ Finish([base EXCEPT !.ready = FALSE, !.cycle = "returned",
                                        !.cycle_ret = -ENODEV],
                           led_state, <<>>, -ENODEV)
            ELSE CycleCommand(base, 1, <<>>, e)
    ELSE \E e \in Errs :
            /\ servo_pulse' = IF e = 0 THEN PWM_SERVO_MIN_PULSE_WIDTH
                              ELSE servo_pulse
            /\ Finish(base, led_state, <<Pos(PWM_SERVO_MIN_PULSE_WIDTH, e)>>, e)

\* ------------------------------------------------- my_lbs.c: write_led
\* the length check written as len < 1
led_write_check_len_lt(buf, offset, led_cb) ==
    IF Len(buf) < 1 THEN "ERR_LEN"
    ELSE IF offset # 0 THEN "ERR_OFFSET"
    ELSE IF led_cb
         THEN (IF buf[1] = 0 \/ buf[1] = 1 THEN "CALL" ELSE "ERR_VALUE")
         ELSE "NO_CB"

\* the offset check left out
led_write_check_no_offset(buf, offset, led_cb) ==
    IF Len(buf) # 1 THEN "ERR_LEN"
    ELSE IF led_cb
         THEN (IF buf[1] = 0 \/ buf[1] = 1 THEN "CALL" ELSE "ERR_VALUE")
         ELSE "NO_CB"

\* a missing notifier reported to the peer as a rejected value
led_write_check_no_cb_fails(buf, offset, led_cb) ==
    IF Len(buf) # 1 THEN "ERR_LEN"
    ELSE IF offset # 0 THEN "ERR_OFFSET"
    ELSE IF led_cb /\ (buf[1] = 0 \/ buf[1] = 1) THEN "CALL"
    ELSE "ERR_VALUE"

\* lines 32-56: the checks write_led makes, in the order it makes them
led_write_check(buf, offset, led_cb) ==
    IF Len(buf) # 1 THEN "ERR_LEN"
    ELSE IF offset # 0 THEN "ERR_OFFSET"
    ELSE IF led_cb
         THEN (IF buf[1] = 0 \/ buf[1] = 1 THEN "CALL" ELSE "ERR_VALUE")
         ELSE "NO_CB"

\* a return from write_led that never reached the notifier
Return(base, value) ==
    /\ op' = [base EXCEPT !.ret = value]
    /\ UNCHANGED <<btpc, frame, outs>>

write_led ==
    /\ link = "connected"
    /\ btpc = "idle"
    /\ \E buf \in Payloads, offset \in 0 .. MaxOffset :
        LET v == led_write_check(buf, offset, lbs_cb.led_cb)
            base == WOp("write_led", buf, offset)
        IN  CASE v = "ERR_LEN" ->
                   Return(base, BT_GATT_ERR(BT_ATT_ERR_INVALID_ATTRIBUTE_LEN))
              [] v = "ERR_OFFSET" ->
                   Return(base, BT_GATT_ERR(BT_ATT_ERR_INVALID_OFFSET))
              [] v = "ERR_VALUE" ->
                   Return(base, BT_GATT_ERR(BT_ATT_ERR_VALUE_NOT_ALLOWED))
              [] v = "NO_CB" -> Return(base, Len(buf))
              [] OTHER -> app_led_cb(base, buf[1] # 0)
    /\ UNCHANGED <<mainvars, handler_set, callbacks, lbs_cb, button_state,
                   app_button_state, advq, link, last_edge>>

\* k_msleep(50) is over: run_servo_cycle goes on from line 59
write_led_wake50 ==
    /\ btpc = "k_msleep_50"
    /\ \E e \in Errs :
        CycleCommand(WOp("write_led_wake50", frame.buf, frame.offset),
                     2, frame.effects, e)
    /\ UNCHANGED <<mainvars, handler_set, callbacks, lbs_cb, button_state,
                   app_button_state, advq, link, last_edge>>

\* k_msleep(750) is over: run_servo_cycle goes on from line 65
write_led_wake750 ==
    /\ btpc = "k_msleep_750"
    /\ \E e \in Errs :
        CycleCommand(WOp("write_led_wake750", frame.buf, frame.offset),
                     3, frame.effects, e)
    /\ UNCHANGED <<mainvars, handler_set, callbacks, lbs_cb, button_state,
                   app_button_state, advq, link, last_edge>>

\* ------------------------------------------------ my_lbs.c: read_button
\* the stack's generic attribute read: copy value from offset into a buffer
\* of buf_len bytes, give the count, or Invalid Offset past the value's end
bt_gatt_attr_read(buf_len, offset, value) ==
    IF offset > Len(value)
    THEN [n |-> BT_GATT_ERR(BT_ATT_ERR_INVALID_OFFSET), bytes |-> <<>>]
    ELSE LET n == Min(buf_len, Len(value) - offset)
         IN  [n |-> n, bytes |-> SubSeq(value, offset + 1, offset + n)]

\* main.c lines 154-158: the provider hands back app_button_state
app_button_cb(state) == state

\* line 67: the value button_state has after read_button
read_button_store(button_cb, cur, provided) ==
    IF button_cb THEN provided ELSE cur

\* the early return for a missing provider left out
read_button_result_no_guard(button_cb, stored, len, offset) ==
    bt_gatt_attr_read(len, offset, <<BoolToInt(stored)>>)

\* lines 66-73: what read_button returns and copies out
read_button_result(button_cb, stored, len, offset) ==
    IF button_cb
    THEN bt_gatt_attr_read(len, offset, <<BoolToInt(stored)>>)
    ELSE [n |-> 0, bytes |-> <<>>]

read_button ==
    /\ link = "connected"
    /\ btpc = "idle"
    /\ \E len \in 1 .. MaxBufLen, offset \in 0 .. MaxReadOffset :
        LET stored == read_button_store(lbs_cb.button_cb, button_state,
                                        app_button_cb(app_button_state))
            r == read_button_result(lbs_cb.button_cb, stored, len, offset)
        IN  /\ button_state' = stored
            /\ op' = [Op("read_button") EXCEPT !.len = len, !.offset = offset,
                                               !.ret = r.n, !.rsp = r.bytes]
    /\ UNCHANGED <<mainvars, handler_set, callbacks, lbs_cb, app_button_state,
                   advq, link, btpc, frame, outs, last_edge>>

\* ------------------------------------------------------------------ Next
Next ==
    \/ main_pwm_init
    \/ main_dk_init
    \/ main_bt_enable
    \/ main_lbs_init
    \/ main_loop
    \/ button_handler
    \/ adv_work_handler
    \/ on_connected
    \/ on_disconnected
    \/ recycled_cb
    \/ write_led
    \/ write_led_wake50
    \/ write_led_wake750
    \/ read_button

Spec == Init /\ [][Next]_vars

\* adv_work is run by the system work queue, a thread of its own that takes
\* each queued item in turn: a submitted adv_work is not left waiting for ever
FairSpec == Spec /\ WF_vars(adv_work_handler)

\* ================================================================ claims
WriteNames == {"write_led", "write_led_wake50", "write_led_wake750"}

\* write_led has just returned to the stack
WriteReturned == op.name \in WriteNames /\ btpc = "idle"

\* the entries of a given kind among the effects
OfKind(eff, kind) == SelectSeq(eff, LAMBDA x : x[1] = kind)

\* every driver call among the effects succeeded
AllOk(eff) == \A i \in 1 .. Len(eff) : eff[i][3] = 0

\* C1: a write to the LED characteristic whose length is not 1 returns
\* Invalid Attribute Length, whatever its offset, payload and callback set;
\* it makes no notifier call, no position command and no indicator call, and
\* nothing the program stores changes.
C1_BadLengthRejected ==
    [][ (op'.name = "write_led" /\ op'.len # 1)
        => /\ op'.ret = BT_GATT_ERR(BT_ATT_ERR_INVALID_ATTRIBUTE_LEN)
           /\ op'.effects = <<>>
           /\ op'.cycle = "none"
           /\ progstate' = progstate ]_vars

C1_Witness ==
    /\ op.name = "write_led"
    /\ op.len = 2
    /\ op.buf[1] = 1
    /\ op.offset = 0
    /\ lbs_cb.led_cb
    /\ op.ret = BT_GATT_ERR(BT_ATT_ERR_INVALID_ATTRIBUTE_LEN)

\* C2: a write with length 1 and an offset other than 0 returns Invalid
\* Offset, whatever its payload byte and callback set; it makes no notifier
\* call, no position command and no indicator call, and nothing the program
\* stores changes.
C2_BadOffsetRejected ==
    [][ (op'.name = "write_led" /\ op'.len = 1 /\ op'.offset # 0)
        => /\ op'.ret = BT_GATT_ERR(BT_ATT_ERR_INVALID_OFFSET)
           /\ op'.effects = <<>>
           /\ op'.cycle = "none"
           /\ progstate' = progstate ]_vars

C2_Witness ==
    /\ op.name = "write_led"
    /\ op.len = 1
    /\ op.buf[1] = 1
    /\ op.offset = 1
    /\ lbs_cb.led_cb
    /\ op.ret = BT_GATT_ERR(BT_ATT_ERR_INVALID_OFFSET)

\* C3: a write with length 1, offset 0 and a payload byte outside {0,1} is
\* rejected with Value Not Allowed and issues no position command and no
\* indicator call, whether or not a notifier (led_cb) is registered.
C3_BadValueRejectedAnyConfig ==
    (WriteReturned /\ op.len = 1 /\ op.offset = 0 /\ op.buf[1] \notin {0, 1})
    => /\ op.ret = BT_GATT_ERR(BT_ATT_ERR_VALUE_NOT_ALLOWED)
       /\ op.effects = <<>>

\* the command sequence of the forward motion program, followed by the
\* indicator call
ForwardSequence ==
    << Pos(CYCLE_MIN_PULSE, 0), Hold(HOLD_AFTER_MIN),
       Pos(CYCLE_MAX_PULSE, 0), Hold(HOLD_AFTER_MAX),
       Pos(CYCLE_MIN_PULSE, 0), Led(TRUE, 0) >>

\* C4: an accepted write of 0x01 (length 1, offset 0, notifier registered,
\* actuator ready, every command succeeding) returns 1 and has made exactly:
\* position near-minimum, hold 50 ms, position near-maximum, hold 750 ms,
\* position near-minimum, then one indicator call with true.
C4_ForwardSequence ==
    (/\ WriteReturned
     /\ op.buf = <<1>>
     /\ op.offset = 0
     /\ lbs_cb.led_cb
     /\ op.ready
     /\ AllOk(op.effects))
    => /\ op.ret = 1
       /\ op.effects = ForwardSequence
       /\ servo_pulse = CYCLE_MIN_PULSE
       /\ blinky_led = 1

C4_Witness ==
    /\ WriteReturned
    /\ op.name = "write_led_wake750"
    /\ op.buf = <<1>>
    /\ op.offset = 0
    /\ AllOk(op.effects)
    /\ Len(op.effects) = 6
    /\ op.ret = 1

\* C5: an accepted write of 0x00 (length 1, offset 0, notifier registered)
\* returns 1 and makes exactly one position command, the idle position, with
\* no hold, followed by exactly one indicator call with false; the forward
\* motion program is not started.
C5_ResetToIdle ==
    (WriteReturned /\ op.buf = <<0>> /\ op.offset = 0 /\ lbs_cb.led_cb)
    => /\ op.ret = 1
       /\ op.name = "write_led"
       /\ op.cycle = "none"
       /\ Len(op.effects) = 2
       /\ op.effects[1][1] = "pos"
       /\ op.effects[1][2] = PWM_SERVO_MIN_PULSE_WIDTH
       /\ op.effects[2][1] = "led"
       /\ op.effects[2][2] = 0

C5_Witness ==
    /\ WriteReturned
    /\ op.buf = <<0>>
    /\ op.offset = 0
    /\ lbs_cb.led_cb
    /\ op.effects = <<Pos(PWM_SERVO_MIN_PULSE_WIDTH, 0), Led(FALSE, 0)>>
    /\ blinky_led = 0
    /\ servo_pulse = PWM_SERVO_MIN_PULSE_WIDTH

\* C6: with no notifier registered (my_lbs_init given no callback set, or one
\* whose led_cb is null) every write with length 1, offset 0 and payload in
\* {0,1} returns 1 and makes no position command and no indicator call.
C6_NoNotifierStillSucceeds ==
    [][ (/\ op'.name = "write_led"
         /\ op'.len = 1
         /\ op'.offset = 0
         /\ op'.buf[1] \in {0, 1}
         /\ ~lbs_cb.led_cb)
        => /\ op'.ret = 1
           /\ op'.effects = <<>>
           /\ op'.cycle = "none"
           /\ progstate' = progstate ]_vars

C6_Witness ==
    /\ op.name = "write_led"
    /\ callbacks = NullCallbacks
    /\ ~lbs_cb.led_cb
    /\ op.buf = <<1>>
    /\ op.offset = 0
    /\ op.ret = 1

\* C7: in the forward motion program the first position command that fails,
\* or the actuator not being ready at entry, ends the program: no position
\* command and no hold comes after it (so no command is retried) and the
\* program returns that failure; it returns 0 only after all three commands.
C7_CycleFailFast ==
    (op.name \in WriteNames /\ op.cycle # "none")
    => /\ \A i \in 1 .. Len(op.effects) :
            (op.effects[i][1] = "pos" /\ op.effects[i][3] # 0)
            => /\ \A j \in (i + 1) .. Len(op.effects) :
                    op.effects[j][1] = "led"
               /\ op.cycle = "returned"
               /\ op.cycle_ret = op.effects[i][3]
       /\ ~op.ready
            => /\ OfKind(op.effects, "pos") = <<>>
               /\ OfKind(op.effects, "hold") = <<>>
               /\ op.cycle = "returned"
               /\ op.cycle_ret = -ENODEV
       /\ (op.cycle = "returned" /\ op.cycle_ret = 0)
            => Len(OfKind(op.effects, "pos")) = 3

C7_Witness ==
    /\ WriteReturned
    /\ op.name = "write_led_wake50"
    /\ op.cycle = "returned"
    /\ op.cycle_ret = -EIO
    /\ Len(op.effects) = 4
    /\ op.effects[3] = Pos(CYCLE_MAX_PULSE, -EIO)

\* C8: for every valid write (length 1, offset 0, payload in {0,1}, notifier
\* registered) write_led returns 1 whether or not a position command or the
\* indicator call failed, and the indicator call with the written boolean is
\* made exactly once, as the last call, also when the actuator part failed.
C8_HardwareFailureNotPropagated ==
    (/\ WriteReturned
     /\ op.len = 1
     /\ op.offset = 0
     /\ op.buf[1] \in {0, 1}
     /\ lbs_cb.led_cb)
    => /\ op.ret = 1
       /\ Len(OfKind(op.effects, "led")) = 1
       /\ op.effects[Len(op.effects)][1] = "led"
       /\ op.effects[Len(op.effects)][2] = op.buf[1]

C8_Witness ==
    /\ WriteReturned
    /\ op.buf = <<1>>
    /\ op.offset = 0
    /\ op.cycle = "returned"
    /\ op.cycle_ret # 0
    /\ op.effects[Len(op.effects)] = Led(TRUE, -EIO)
    /\ op.ret = 1

\* C9: with a provider registered, after any interleaving of edge events,
\* writes and reads, a read of the Button characteristic at offset 0 stores
\* the provider's result in button_state and returns exactly 1 byte equal to
\* it: 1 if the last edge event that flagged the monitored input as changed
\* was a press, 0 if it was a release or there was none since startup.
C9_ReadReturnsDebouncedState ==
    (op.name = "read_button" /\ lbs_cb.button_cb /\ op.offset = 0)
    => /\ button_state = app_button_state
       /\ op.ret = 1
       /\ op.rsp = <<BoolToInt(button_state)>>
       /\ op.rsp[1] = IF last_edge = "press" THEN 1 ELSE 0

C9_Witness ==
    /\ op.name = "read_button"
    /\ lbs_cb.button_cb
    /\ op.offset = 0
    /\ op.rsp = <<1>>
    /\ last_edge = "press"
    /\ blinky_led = 1

\* C10: with no provider registered every read of the Button characteristic
\* returns 0 bytes and leaves button_state and everything else the program
\* stores unchanged, and right after it a further read and a further write
\* can be served.
C10_NoProviderRead ==
    /\ [][ (op'.name = "read_button" /\ ~lbs_cb.button_cb)
           => /\ op'.ret = 0
              /\ op'.rsp = <<>>
              /\ progstate' = progstate ]_vars
    /\ []( (op.name = "read_button" /\ ~lbs_cb.button_cb)
           => (ENABLED read_button /\ ENABLED write_led) )

C10_Witness ==
    /\ op.name = "read_button"
    /\ ~lbs_cb.button_cb
    /\ lbs_cb.led_cb
    /\ app_button_state
    /\ op.ret = 0
    /\ ~button_state

\* C11: for every edge event (level mask, changed mask) the debounced boolean
\* becomes true when the monitored input is flagged changed and its level is
\* set, false when it is flagged changed and its level is clear, and keeps its
\* value when it is not flagged changed, whatever its level and whatever the
\* level and changed bits of the other inputs.
C11_EdgeTransitionTable ==
    [][ (op'.name = "button_handler")
        => app_button_state' =
             IF op'.has_changed % 2 = 1
             THEN op'.button_state % 2 = 1
             ELSE app_button_state ]_vars

\* the value survived an event whose masks carry only the other input's bits
C11_Witness ==
    /\ op.name = "button_handler"
    /\ op.has_changed = 2
    /\ op.button_state = 2
    /\ app_button_state
    /\ last_edge = "press"

\* C12: advertising requests coalesce. Each recycled event makes exactly one
\* advertising_start call; the work queue never holds more than one entry of
\* adv_work; and a run of the handler, however many calls came before it,
\* calls bt_le_adv_start once and leaves nothing queued, so that those calls
\* lead to exactly one start.
C12_RequestsCoalesce ==
    /\ [](adv_pending \in {0, 1})
    /\ [][ (op'.name = "recycled_cb")
           => /\ adv_requests' = Min(adv_requests + 1, MaxRequests)
              /\ adv_pending' = 1 ]_vars
    /\ [][ (op'.name = "adv_work_handler")
           => /\ adv_pending = 1
              /\ adv_pending' = 0
              /\ adv_requests' = 0
              /\ op'.adv_call ]_vars

\* two requests (two recycled events, or startup and one recycled event) were
\* served by one run of the handler
C12_Witness ==
    /\ op.name = "adv_work_handler"
    /\ op.requests = 2
    /\ op.adv_call
    /\ adv_pending = 0

\* C13: a failed advertising start is not retried. A run of adv_work_handler
\* whose bt_le_adv_start fails leaves adv_work unqueued and the link as it
\* was, and adv_work is queued again only by a later recycled event
\* (or, once, by startup), never by the handler or by any other step.
C13_FailedStartNotRetried ==
    /\ [][ (op'.name = "adv_work_handler" /\ op'.err # 0)
           => /\ adv_pending' = 0
              /\ link' = link ]_vars
    /\ [][ (adv_pending' > adv_pending)
           => op'.name \in {"recycled_cb", "main_lbs_init"} ]_vars

\* a start failed and nothing is queued to try again
C13_Witness ==
    /\ op.name = "adv_work_handler"
    /\ op.adv_call
    /\ op.err # 0
    /\ adv_pending = 0
    /\ link = "idle"

\* C14: startup errors are fatal. A step of main in which the servo is not
\* ready, or the first position command, dk_leds_init, init_button or
\* bt_enable fails, ends main; main then stays ended with the callbacks of the
\* service unregistered, adv_work never submitted and the loop never entered.
\* A NULL callback set is no error: my_lbs_init and the first
\* advertising_start follow whatever the callback set, and only they enter
\* the loop.
MainSteps == {"main_pwm_init", "main_dk_init", "main_bt_enable"}

C14_StartupErrorsFatal ==
    /\ [][ (op'.name \in MainSteps /\ (op'.err # 0 \/ ~op'.ready))
           => mainpc' = "aborted" ]_vars
    /\ [][ (mainpc = "aborted") => (mainpc' = "aborted") ]_vars
    /\ [](mainpc = "aborted"
          => /\ lbs_cb = [led_cb |-> FALSE, button_cb |-> FALSE]
             /\ adv_pending = 0
             /\ adv_requests = 0
             /\ link # "advertising"
             /\ blink_status = 0)
    /\ [][ (mainpc = "lbs_init" /\ mainpc' # mainpc)
           => /\ op'.name = "main_lbs_init"
              /\ mainpc' = "loop"
              /\ adv_pending' = 1 ]_vars
    /\ [][ (mainpc' = "loop" /\ mainpc # "loop")
           => op'.name = "main_lbs_init" ]_vars

\* bt_enable failed after the servo, the LEDs and the buttons came up
C14_Witness ==
    /\ mainpc = "aborted"
    /\ op.name = "main_bt_enable"
    /\ op.err # 0
    /\ handler_set
    /\ servo_pulse = PWM_SERVO_MIN_PULSE_WIDTH
    /\ adv_pending = 0

\* C15: bt_le_adv_start is called only by adv_work_handler, on the system
\* work queue. The connected, disconnected and recycled callbacks never call
\* it themselves: recycled_cb only queues adv_work, and the link starts
\* advertising in no step but a run of the handler.
ConnCallbacks == {"on_connected", "on_disconnected", "recycled_cb"}

C15_StartOnlyFromWorkHandler ==
    /\ [][ op'.adv_call => (op'.name = "adv_work_handler") ]_vars
    /\ [][ (op'.name \in ConnCallbacks)
           => /\ ~op'.adv_call
              /\ (link' = "advertising") => (link = "advertising") ]_vars
    /\ [][ (op'.name = "recycled_cb") => (adv_pending' = 1) ]_vars

\* a connection object was recycled after a disconnect: the start is queued,
\* not made
C15_Witness ==
    /\ op.name = "recycled_cb"
    /\ ~op.adv_call
    /\ adv_pending = 1
    /\ link = "idle"

\* C16 as stated: connect and disconnect events only log; after startup only
\* the recycled event submits adv_work; and bt_le_adv_start is not called
\* between a disconnect and the recycled event that follows it.
C16_NoStartBeforeRecycle ==
    /\ [][ (op'.name \in {"on_connected", "on_disconnected"})
           => UNCHANGED <<mainvars, lbs_cb, app_button_state, advq, btpc,
                          frame, outs>> ]_vars
    /\ [][ (adv_pending' > adv_pending)
           => op'.name \in {"main_lbs_init", "recycled_cb"} ]_vars
    /\ [][ (link = "released") => ~op'.adv_call ]_vars

\* C16, amended: connect and disconnect events only log, and after startup
\* only the recycled event submits adv_work, so that nothing is submitted
\* between a disconnect and the recycled event that follows it. A submission
\* made before the disconnect and not yet run is still run in that interval.
C16_OnlyRecycleRequests ==
    /\ [][ (op'.name \in {"on_connected", "on_disconnected"})
           => UNCHANGED <<mainvars, lbs_cb, app_button_state, advq, btpc,
                          frame, outs>> ]_vars
    /\ [][ (adv_pending' > adv_pending \/ adv_requests' > adv_requests)
           => op'.name \in {"main_lbs_init", "recycled_cb"} ]_vars
    /\ [][ (link = "released" /\ link' = "released")
           => /\ adv_pending' <= adv_pending
              /\ adv_requests' <= adv_requests
              /\ op'.adv_call => (adv_pending = 1 /\ op'.requests >= 1) ]_vars

\* the handler ran between a disconnect and its recycled event, for a
\* submission older than the disconnect
C16_Witness ==
    /\ link = "released"
    /\ op.name = "adv_work_handler"
    /\ op.adv_call
    /\ op.requests >= 1
    /\ adv_pending = 0

\* the state of the lifecycle of section 4.5 of the specification that the
\* link is in; Recycled is left in the step that enters it
Lifecycle ==
    CASE link = "connected" -> "Connected"
      [] link = "released" -> "Disconnecting"
      [] link = "off" -> "None"
      [] OTHER -> "Advertising"

\* C17 as stated: the link goes round the cycle Advertising, Connected,
\* Disconnecting, Recycled, Advertising, and a recycled event in a state other
\* than Disconnecting is ignored: it does not request advertising.
C17_RecycledIgnoredOutsideDisconnecting ==
    /\ [][ (Lifecycle' # Lifecycle /\ Lifecycle # "None")
           => \/ Lifecycle = "Advertising" /\ Lifecycle' = "Connected"
              \/ Lifecycle = "Connected" /\ Lifecycle' = "Disconnecting"
              \/ Lifecycle = "Disconnecting" /\ Lifecycle' = "Advertising" ]_vars
    /\ [][ (op'.name = "recycled_cb" /\ Lifecycle # "Disconnecting")
           => UNCHANGED advq ]_vars

\* C17, amended: the link goes round the cycle Advertising, Connected,
\* Disconnecting, Recycled, Advertising, moved by the connected, disconnected
\* and recycled events only; the program itself keeps no lifecycle state, and
\* every recycled event, whatever the state it comes in, requests advertising
\* and leaves adv_work queued once.
C17_EveryRecycledRequests ==
    /\ [][ (Lifecycle' # Lifecycle /\ Lifecycle # "None")
           => \/ /\ Lifecycle = "Advertising" /\ Lifecycle' = "Connected"
                 /\ op'.name = "on_connected"
              \/ /\ Lifecycle = "Connected" /\ Lifecycle' = "Disconnecting"
                 /\ op'.name = "on_disconnected"
              \/ /\ Lifecycle = "Disconnecting" /\ Lifecycle' = "Advertising"
                 /\ op'.name = "recycled_cb" ]_vars
    /\ [][ (op'.name = "recycled_cb")
           => /\ adv_pending' = 1
              /\ adv_requests' = Min(adv_requests + 1, MaxRequests)
              /\ Lifecycle # "Disconnecting" => Lifecycle' = Lifecycle ]_vars

\* a recycled event came while connected and queued adv_work
C17_Witness ==
    /\ op.name = "recycled_cb"
    /\ Lifecycle = "Connected"
    /\ adv_pending = 1
    /\ adv_requests = 1

\* the callbacks the stack makes in its own callback context
StackCallbacks ==
    {"write_led", "read_button", "on_connected", "on_disconnected",
     "recycled_cb"}

\* C18: the LED write is synchronous. write_led returns only after the
\* notifier has finished: a write that reached the notifier has, when it
\* returns, made its position commands and then, last, its one indicator
\* update; a write that is still in one of its sleeps has neither updated the
\* indicator nor returned; and from its first position command to its return
\* the stack makes no other write, read, connected, disconnected or recycled
\* callback.
C18_WriteSynchronous ==
    /\ []( (WriteReturned /\ op.effects # <<>>)
           => /\ op.effects[Len(op.effects)][1] = "led"
              /\ Len(OfKind(op.effects, "led")) = 1
              /\ op.ret = op.len
              /\ frame = NoFrame )
    /\ [][ (op'.name \in WriteNames /\ op'.cycle = "sleeping")
           => /\ btpc' # "idle"
              /\ OfKind(op'.effects, "led") = <<>>
              /\ op'.effects[1][1] = "pos"
              /\ UNCHANGED blinky_led ]_vars
    /\ [][ (btpc # "idle")
           => /\ op'.name \notin StackCallbacks
              /\ UNCHANGED <<link, lbs_cb, button_state>> ]_vars

\* a write went through both sleeps, its last position command failed, and
\* it returned after the indicator update
C18_Witness ==
    /\ WriteReturned
    /\ op.name = "write_led_wake750"
    /\ Len(op.effects) = 6
    /\ op.effects[5][3] # 0
    /\ op.effects[6][1] = "led"
    /\ op.ret = 1

\* C19 as stated: the position commanded on a write of 0x00 is the position
\* the servo cycle commands first and last on a write of 0x01, so that after
\* any accepted write whose commands all succeeded the servo rests at that
\* one position: the first and the last position command of the write, and
\* the pulse width the servo is left with, are PWM_SERVO_MIN_PULSE_WIDTH.
C19_OneIdlePosition ==
    (/\ WriteReturned
     /\ OfKind(op.effects, "pos") # <<>>
     /\ AllOk(op.effects))
    => LET pos == OfKind(op.effects, "pos")
       IN  /\ pos[1][2] = PWM_SERVO_MIN_PULSE_WIDTH
           /\ pos[Len(pos)][2] = PWM_SERVO_MIN_PULSE_WIDTH
           /\ servo_pulse = PWM_SERVO_MIN_PULSE_WIDTH

\* C20: with the system work queue scheduled fairly, every advertising
\* request, that of a successful startup and that of each recycled event, is
\* followed by a run of adv_work_handler, which calls bt_le_adv_start; this
\* holds at any time in the life of the program, whatever the main loop, the
\* buttons and the peer do meanwhile.
C20_ReadvertisingLiveness ==
    (op.name \in {"main_lbs_init", "recycled_cb"})
        ~> (op.name = "adv_work_handler" /\ op.adv_call)

\* advertising was started by the work queue while the main loop was running
C20_Witness ==
    /\ op.name = "adv_work_handler"
    /\ op.adv_call
    /\ op.err = 0
    /\ link = "advertising"
    /\ mainpc = "loop"
    /\ blink_status = 1

====
